---- MODULE Spec2Model ----
(***************************************************************************)
(* Model of the quiz bot in bot/__main__.py: the per-user FSM storage of   *)
(* the aiogram Dispatcher (state + data), the callback handlers that read  *)
(* and write it, and the temporary PDF files of the report handler.        *)
(*                                                                         *)
(* Handlers are coroutines.  A handler runs without interruption between   *)
(* two awaited Telegram calls; the in-memory FSM storage of `Dispatcher()` *)
(* never suspends.  Each awaited Telegram call is therefore the end of one *)
(* action of the model and may either complete or raise.  `get_data`       *)
(* returns a copy of the stored dict that shares the stored `results`      *)
(* list object, so lists are kept in a heap and referred to by identity.   *)
(***************************************************************************)
EXTENDS Integers, Sequences, FiniteSets, TLC

\* ───────────── bounds of the model ─────────────
MaxTasks == 2       \* handlers of one user that may be in flight together
MaxFiles == 1       \* temporary files that may exist together
MaxUpdates == 5     \* updates the dispatcher takes from polling in one run
MaxItems == 2       \* records of a result log handed to build_pdf on its own
MaxLines == 3       \* line-groups of a text report chunked on its own

\* ───────────── the question bank ─────────────
\* QUIZZES as loaded from quizzes.json: topic -> list of questions.
QUIZZES ==
    [t1 |-> << [question |-> "t1q0", correct |-> 1, image_file |-> "none"] >>,
     t2 |-> << [question |-> "t2q0", correct |-> 0, image_file |-> "a.png"],
               [question |-> "t2q1", correct |-> 1, image_file |-> "none"] >>]

Topics == DOMAIN QUIZZES
\* topic names a callback can carry: the bank's keys and one that is no key
TopicNames == Topics \cup {"tx"}
\* option indexes a callback can carry ("ans:<i>")
Choices == {0, 1}

Users == {"u1", "u2"}
\* the users whose updates arrive under Spec
Active == {"u1"}

Slots == 1..MaxTasks
ListIds == 1..(Cardinality(Users) * (MaxTasks + 1) + 1)
NoList == 0
NoTopic == "-"
FileIds == 1..MaxFiles

VARIABLES
    fsm,      \* fsm[u]: the FSM state of user u: "none" or "ReportChoice.waiting"
    data,     \* data[u]: the FSM data dict of user u
    lists,    \* lists[id]: the contents of a Python list object
    tasks,    \* tasks[u][k]: a handler invocation of user u in flight
    files,    \* the temporary PDF files that exist
    menu,     \* menu[u]: the topic keyboard has been shown to u
    prompts,  \* prompts[u]: the questions whose prompt, with its answer buttons,
              \* has been delivered to u
    updates,  \* the number of updates dispatched so far
    batch,    \* history: batch[u] is the session of u when its handlers were last all
              \* finished, and the updates of u dispatched since then
    run,      \* history: run[u] is the answers given since u's session was started
    ev,       \* the handler step taken last and how it ended
    arg,      \* the arguments of a function of the program applied on its own
    out       \* how far that application has got, and its result

\* the variables of the bot, and the variables of a function applied on its own
bot == <<fsm, data, lists, tasks, files, menu, prompts, updates, batch, run, ev>>
vars == <<fsm, data, lists, tasks, files, menu, prompts, updates, batch, run, ev, arg, out>>

\* ───────────── FSM storage ─────────────
Keys == {"topic", "idx", "score", "results"}

\* the dict {} ; a key that is absent keeps a fixed filler value
EmptyData == [has |-> {}, topic |-> NoTopic, idx |-> 0, score |-> 0, results |-> NoList]

Idle == [kind |-> "idle", pc |-> "-", topic |-> NoTopic, next_idx |-> 0,
         score |-> 0, results |-> NoList, path |-> 0, lines |-> <<>>]

\* faulty variant: results=[] is left out of the update
ChooseTopicKeepsResults(d, topic, fresh) ==
    [has |-> Keys, topic |-> topic, idx |-> 0, score |-> 0,
     results |-> IF "results" \in d.has THEN d.results ELSE fresh]

\* state.update_data(topic=topic, idx=0, score=0, results=[])   (fresh: the new list)
ChooseTopicData(d, topic, fresh) ==
    [has |-> Keys, topic |-> topic, idx |-> 0, score |-> 0, results |-> fresh]

\* state.update_data(idx=next_idx, score=score, results=d["results"])
NextQuestionData(d, next_idx, score, results) ==
    [d EXCEPT !.has = @ \cup {"idx", "score", "results"},
              !.idx = next_idx, !.score = score, !.results = results]

\* state.update_data(score=score)
FinalScoreData(d, score) ==
    [d EXCEPT !.has = @ \cup {"score"}, !.score = score]

\* faulty variant: only the state is reset, the data stay
ClearedKeepsData(d) == d

\* state.clear(): the state becomes None and the data {}
ClearedState == "none"
ClearedData(d) == EmptyData

\* the list objects some dict or some handler in flight refers to
Refs(dt, ts) ==
    {dt[u].results : u \in Users} \cup {ts[u][k].results : u \in Users, k \in Slots}

\* faulty variant: results=[] is one list object shared by every session
FreshListShared == CHOOSE i \in ListIds : \A j \in ListIds : i <= j

\* a list object nothing refers to
FreshList == CHOOSE i \in ListIds : i \notin Refs(data, tasks) /\
                 \A j \in ListIds : j \notin Refs(data, tasks) => i <= j

\* list objects nothing refers to any more are dropped
Collect(ls, dt, ts) ==
    [i \in ListIds |-> IF i \in Refs(dt, ts) THEN ls[i] ELSE <<>>]

\* ───────────── reading a question ─────────────
\* d["topic"], d["idx"], QUIZZES[topic][idx]: the exception the lookup raises, or "ok"
Lookup(d) ==
    IF ~ ({"topic", "idx"} \subseteq d.has) THEN "KeyError"
    ELSE IF d.topic \notin Topics THEN "KeyError"
    ELSE IF d.idx + 1 > Len(QUIZZES[d.topic]) THEN "IndexError"
    ELSE "ok"

Question(topic, idx) == QUIZZES[topic][idx + 1]

\* correct = chosen == q["correct"]
IsCorrect(q, chosen) == chosen = q.correct

\* the dict appended to d["results"]
AnswerRecord(topic, idx, chosen) ==
    LET q == Question(topic, idx) IN
    [index |-> idx, question |-> q.question, correct_answer |-> q.correct,
     image_path |-> q.image_file, correct |-> IsCorrect(q, chosen)]

\* score = d["score"] + int(correct)
NewScore(score, correct) == score + (IF correct THEN 1 ELSE 0)

\* faulty variant: next_idx <= len(QUIZZES[topic])
HasNextOffByOne(next_idx, topic) == next_idx <= Len(QUIZZES[topic])

\* next_idx < len(QUIZZES[topic])
HasNext(next_idx, topic) == next_idx < Len(QUIZZES[topic])

\* faulty variant: the report handlers are registered without the state filter
ReportUnfiltered(state) == TRUE

\* the filter ReportChoice.waiting of the two report handlers
ReportFilter(state) == state = "ReportChoice.waiting"

\* ───────────── the text report ─────────────
\* mark = "✅" if item["correct"] else "❌"
Mark(item) == IF item.correct THEN "check" ELSE "cross"

\* the line-group of the i-th record: mark, "Вопрос {i}", question, correct answer
LineGroup(i, item) ==
    [mark |-> Mark(item), number |-> i, question |-> item.question,
     correct_answer |-> item.correct_answer]

\* faulty variant: the last record is not rendered
ReportLinesButLast(results) ==
    [i \in 1..(Len(results) - 1) |-> LineGroup(i, results[i])]

\* lines: one line-group for each record of d["results"], in order
ReportLines(results) == [i \in 1..Len(results) |-> LineGroup(i, results[i])]

\* ───────────── the chunks of the text report ─────────────
\* if len(chunk) + len(line) > 3500
ChunkLimit == 3500
\* "Telegram: max 4096 characters per message"
TransportMax == 4096

\* A text is a sequence of pieces; a piece is a line-group (id: its position in
\* lines, len: its characters) or the separator "\n\n" (id 0).
Separator == <<[id |-> 0, len |-> 2]>>

\* len(text)
RECURSIVE StrLen(_)
StrLen(text) == IF text = <<>> THEN 0 ELSE Head(text).len + StrLen(Tail(text))

\* len(chunk) + len(line) > 3500
Overflows(chunk, line) == StrLen(chunk) + StrLen(line) > ChunkLimit

\* faulty variant: chunk += line
ExtendedNoSeparator(chunk, line) == chunk \o line

\* chunk += line + "\n\n"
Extended(chunk, line) == chunk \o line \o Separator

\* ───────────── build_pdf ─────────────
\* what FONT_PATH holds: a font that loads, nothing, or a file add_font rejects
Fonts == {"ok", "missing", "corrupt"}
\* what the file at image_path is: an image, absent, or a file pdf.image
\* rejects with RuntimeError
Images == {"ok", "missing", "broken"}

\* font_ok: FONT_PATH.exists() and add_font did not raise
FontOk(font) == font = "ok"

\* the texts latin-1 can encode; "t2" stands for a topic name in Cyrillic
IsLatin1(text) == text \in {"t1", "tx", "?"}

\* text.encode("latin-1", "replace").decode("latin-1")
Latin1Replaced(text) == IF IsLatin1(text) THEN text ELSE "?"

\* pdf.cell / pdf.multi_cell: under the core font Helvetica a text latin-1
\* cannot encode raises; under the Unicode font nothing raises
Cell(font_ok, text) ==
    IF font_ok \/ IsLatin1(text) THEN "ok" ELSE "FPDFUnicodeEncodingException"

\* f"{i}. {question} — верный ответ: {correct_answer}": the words of the
\* format string are Cyrillic, so no such text is latin-1
ItemText(i, item) == "item"

\* try: multi_cell(text) / except FPDFUnicodeEncodingException: multi_cell(replaced text)
MultiCellGuarded(font_ok, text) ==
    IF Cell(font_ok, text) = "ok" THEN "ok" ELSE Cell(font_ok, Latin1Replaced(text))

\* "[Ошибка изображения]"
PlaceholderText == "[image error]"

\* the image of a record: embedded, skipped, or replaced by the placeholder cell
ImageCell(font_ok, item, image) ==
    IF item.image_path = "none" \/ image = "missing" THEN "ok"
    ELSE IF image = "ok" THEN "ok"
    ELSE Cell(font_ok, PlaceholderText)

\* the title page, and a new page before records 6, 11, ...
Pages(n) == 1 + (IF n = 0 THEN 0 ELSE (n - 1) \div 5)

\* build_pdf(title, results): the exception that leaves it, or the pages of
\* the file it wrote
BuildPdf(font, title, results, image) ==
    LET font_ok == FontOk(font)
        ItemCells(i) ==
            IF MultiCellGuarded(font_ok, ItemText(i, results[i])) # "ok"
            THEN MultiCellGuarded(font_ok, ItemText(i, results[i]))
            ELSE ImageCell(font_ok, results[i], image)
    IN IF Cell(font_ok, title) # "ok"
       THEN [pc |-> "done", raised |-> Cell(font_ok, title), pages |-> 0]
       ELSE IF \E i \in 1..Len(results) : ItemCells(i) # "ok"
       THEN [pc |-> "done", raised |-> "FPDFUnicodeEncodingException", pages |-> 0]
       ELSE [pc |-> "done", raised |-> "none", pages |-> Pages(Len(results))]

\* ───────────── the session as one value ─────────────
\* d["results"] of the stored dict, as a value
Records(u) == IF "results" \in data[u].has THEN lists[data[u].results] ELSE <<>>

\* the FSM state and data of u, the list replaced by its contents
Session(u) == [state |-> fsm[u], data |-> [data[u] EXCEPT !.results = Records(u)]]

\* the phases of the specification, read off the FSM storage
Phase(u) ==
    IF fsm[u] = "ReportChoice.waiting" THEN "AwaitingReportChoice"
    ELSE IF data[u] = EmptyData THEN "Closed"
    ELSE "AwaitingAnswer"

Quiescent(u) == \A k \in Slots : tasks[u][k] = Idle

\* handle_answer run from start to end with nothing in between and every send
\* succeeding, on a session value s
SerialAnswer(s, chosen) ==
    LET d == s.data IN
    IF Lookup(d) # "ok" \/ "results" \notin d.has THEN s
    ELSE LET rec == AnswerRecord(d.topic, d.idx, chosen)
             res == Append(d.results, rec)
             seen == [d EXCEPT !.results = res]
         IN IF "score" \notin d.has THEN [s EXCEPT !.data = seen]
            ELSE IF HasNext(d.idx + 1, d.topic)
            THEN [s EXCEPT !.data = NextQuestionData(seen, d.idx + 1,
                                        NewScore(d.score, rec.correct), res)]
            ELSE [state |-> "ReportChoice.waiting",
                  data |-> FinalScoreData(seen, NewScore(d.score, rec.correct))]

\* choose_topic run from start to end, on a session value s
SerialTopic(s, topic) == [s EXCEPT !.data = ChooseTopicData(s.data, topic, <<>>)]

Serial(s, e) ==
    IF e.op = "ans" THEN SerialAnswer(s, e.arg) ELSE SerialTopic(s, e.arg)

\* ───────────── history variables ─────────────
NoBatch == [base |-> [state |-> "none", data |-> [EmptyData EXCEPT !.results = <<>>]],
            evs |-> <<>>, failed |-> FALSE]
NoRun == [clean |-> FALSE, given |-> <<>>]

\* an update e of u is dispatched
BatchDispatched(u, e) ==
    IF Quiescent(u) THEN [base |-> Session(u), evs |-> <<e>>, failed |-> FALSE]
    ELSE IF batch[u].evs # <<>> /\ Len(batch[u].evs) < 2
    THEN [batch[u] EXCEPT !.evs = Append(@, e)]
    ELSE NoBatch

\* a Telegram call of a handler of u raised
BatchFailed(u) ==
    IF batch[u].evs # <<>> THEN [batch[u] EXCEPT !.failed = TRUE] ELSE NoBatch

\* (a text report in flight keeps the run it renders; the run ends when the
\* session is cleared)
\* choose_topic starts a session; its answers are counted when the FSM state is
\* none and no handler of u is in flight
RunStarted(u, topic) ==
    [clean |-> topic \in Topics /\ fsm[u] = "none" /\ Quiescent(u), given |-> <<>>]

\* one more answer is dispatched: counted while the answers come one after the
\* other and are no more than the topic has questions
RunAnswered(u, chosen) ==
    IF run[u].clean /\ Quiescent(u) /\ Len(run[u].given) < Len(QUIZZES[data[u].topic])
    THEN [run[u] EXCEPT !.given = Append(@, chosen)]
    ELSE NoRun

\* the prompt of a button that no prompt sent since construction carries
NoPrompt == <<NoTopic, 0>>

\* the prompts a pressed answer button can belong to
Prompts ==
    UNION {{<<topic, i - 1>> : i \in 1..Len(QUIZZES[topic])} : topic \in Topics}
        \cup {NoPrompt}

\* no function is applied on its own
NoArg == [fn |-> "-"]
NoOut == [pc |-> "-"]

----
TypeOK ==
    /\ fsm \in [Users -> {"none", "ReportChoice.waiting"}]
    /\ \A u \in Users : data[u].has \subseteq Keys
    /\ files \subseteq FileIds
    /\ menu \in [Users -> BOOLEAN]
    /\ updates \in 0..MaxUpdates

\* the bot after construction: empty storage, nothing in flight
InitBot ==
    /\ fsm = [u \in Users |-> "none"]
    /\ data = [u \in Users |-> EmptyData]
    /\ lists = [i \in ListIds |-> <<>>]
    /\ tasks = [u \in Users |-> [k \in Slots |-> Idle]]
    /\ files = {}
    /\ menu = [u \in Users |-> FALSE]
    /\ prompts = [u \in Users |-> {}]
    /\ updates = 0
    /\ batch = [u \in Users |-> NoBatch]
    /\ run = [u \in Users |-> NoRun]
    /\ ev = [op |-> "init", user |-> "-", res |-> "-", prompt |-> NoPrompt]

Init ==
    /\ InitBot
    /\ arg = NoArg
    /\ out = NoOut

Event(op, u, res) == [op |-> op, user |-> u, res |-> res, prompt |-> NoPrompt]

\* ask_question has sent the prompt of QUIZZES[topic][idx] to u
Prompted(u, topic, idx) == [prompts EXCEPT ![u] = @ \cup {<<topic, idx>>}]

\* the dispatcher takes one more update from polling and routes it to a handler
Dispatch ==
    /\ updates < MaxUpdates
    /\ updates' = updates + 1

\* the slot a newly dispatched handler of u runs in
FreeSlot(u) == CHOOSE k \in Slots : tasks[u][k] = Idle /\
                   \A j \in Slots : tasks[u][j] = Idle => k <= j
CanDispatch(u) == \E k \in Slots : tasks[u][k] = Idle

\* how a handler ends whose last awaited Telegram call returned or raised
Sent(raised) == IF raised THEN "DeliveryError" ELSE "ok"

\* the handler in slot k of u ends; what it referred to is dropped
Ended(u, k, dt) ==
    /\ tasks' = [tasks EXCEPT ![u][k] = Idle]
    /\ lists' = Collect(lists, dt, [tasks EXCEPT ![u][k] = Idle])

\* cmd_start: shows the topic keyboard
CmdStart(u) ==
    /\ Dispatch
    /\ UNCHANGED <<arg, out>>
    /\ menu' = [menu EXCEPT ![u] = TRUE]
    /\ ev' = Event("cmd_start", u, "ok")
    /\ UNCHANGED <<fsm, data, lists, tasks, files, prompts, batch, run>>

\* choose_topic (with ask_question): cb.data = "topic:<topic>".  The handler
\* writes the data, then looks the question up, then awaits the prompt's send.
ChooseTopic(u, topic, raised) ==
    /\ Dispatch
    /\ UNCHANGED <<arg, out>>
    /\ menu[u]
    /\ LET d == ChooseTopicData(data[u], topic, FreshList)
           dt == [data EXCEPT ![u] = d]
           res == IF Lookup(d) = "ok" THEN Sent(raised) ELSE Lookup(d)
           b == BatchDispatched(u, [op |-> "topic", arg |-> topic])
       IN /\ data' = dt
          /\ lists' = Collect([lists EXCEPT ![FreshList] = <<>>], dt, tasks)
          /\ ev' = Event("choose_topic", u, res)
          /\ batch' = [batch EXCEPT ![u] =
                          IF res = "DeliveryError" /\ b.evs # <<>>
                          THEN [b EXCEPT !.failed = TRUE] ELSE b]
          /\ run' = [run EXCEPT ![u] = RunStarted(u, topic)]
          /\ prompts' = IF res = "ok" THEN Prompted(u, d.topic, d.idx) ELSE prompts
    /\ UNCHANGED <<fsm, tasks, files, menu>>

\* handle_answer, lines 158-174: cb.data = "ans:<chosen>", up to the await of
\* cb.answer.  from: the question whose prompt carries the pressed button; the
\* callback carries the option index only
HandleAnswer(u, chosen, from) ==
    /\ Dispatch
    /\ UNCHANGED <<arg, out>>
    /\ from \in prompts[u] \cup {NoPrompt}
    /\ CanDispatch(u)
    /\ batch' = [batch EXCEPT ![u] = BatchDispatched(u, [op |-> "ans", arg |-> chosen])]
    /\ run' = [run EXCEPT ![u] = RunAnswered(u, chosen)]
    /\ LET d == data[u]
           k == FreeSlot(u)
       IN IF Lookup(d) # "ok"
          THEN /\ ev' = [Event("handle_answer", u, Lookup(d)) EXCEPT !.prompt = from]
               /\ UNCHANGED <<fsm, data, lists, tasks, files, menu, prompts>>
          ELSE IF "results" \notin d.has
          THEN /\ ev' = [Event("handle_answer", u, "KeyError") EXCEPT !.prompt = from]
               /\ UNCHANGED <<fsm, data, lists, tasks, files, menu, prompts>>
          ELSE LET rec == AnswerRecord(d.topic, d.idx, chosen)
                   ls == [lists EXCEPT ![d.results] = Append(@, rec)]
               IN IF "score" \notin d.has
                  THEN /\ lists' = ls
                       /\ ev' = [Event("handle_answer", u, "KeyError") EXCEPT !.prompt = from]
                       /\ UNCHANGED <<fsm, data, tasks, files, menu, prompts>>
                  ELSE /\ lists' = ls
                       /\ tasks' = [tasks EXCEPT ![u][k] =
                               [Idle EXCEPT !.kind = "answer", !.pc = "cb.answer",
                                            !.topic = d.topic, !.next_idx = d.idx + 1,
                                            !.score = NewScore(d.score, rec.correct),
                                            !.results = d.results]]
                       /\ ev' = [Event("handle_answer", u, "await") EXCEPT !.prompt = from]
                       /\ UNCHANGED <<fsm, data, files, menu, prompts>>

\* handle_answer, lines 174-181: cb.answer returns or raises; with a next
\* question the data are written and ask_question sends the prompt (raised2: that send raises)
AnswerNotified(u, k, raised, raised2) ==
    /\ tasks[u][k].kind = "answer" /\ tasks[u][k].pc = "cb.answer"
    /\ UNCHANGED <<arg, out>>
    /\ UNCHANGED updates
    /\ LET t == tasks[u][k]
       IN IF raised
          THEN /\ Ended(u, k, data)
               /\ ev' = Event("handle_answer", u, "DeliveryError")
               /\ batch' = [batch EXCEPT ![u] = BatchFailed(u)]
               /\ run' = [run EXCEPT ![u] = NoRun]
               /\ UNCHANGED <<fsm, data, files, menu, prompts>>
          ELSE IF HasNext(t.next_idx, t.topic)
          THEN LET d == NextQuestionData(data[u], t.next_idx, t.score, t.results)
                   dt == [data EXCEPT ![u] = d]
                   res == IF Lookup(d) = "ok" THEN Sent(raised2) ELSE Lookup(d)
               IN /\ data' = dt
                  /\ Ended(u, k, dt)
                  /\ ev' = Event("handle_answer", u, res)
                  /\ batch' = [batch EXCEPT ![u] =
                                  IF res = "DeliveryError" THEN BatchFailed(u) ELSE @]
                  /\ prompts' = IF res = "ok" THEN Prompted(u, d.topic, d.idx) ELSE prompts
                  /\ UNCHANGED <<fsm, files, menu, run>>
          ELSE /\ tasks' = [tasks EXCEPT ![u][k].pc = "end_message"]
               /\ ev' = Event("handle_answer", u, "await")
               /\ UNCHANGED <<fsm, data, lists, files, menu, prompts, batch, run>>

\* handle_answer, lines 181-195: the end-of-quiz message is sent or raises;
\* then the score and the state are written and the report keyboard is sent (raised2: that send raises)
AnswerFinished(u, k, raised, raised2) ==
    /\ tasks[u][k].kind = "answer" /\ tasks[u][k].pc = "end_message"
    /\ UNCHANGED <<arg, out>>
    /\ UNCHANGED updates
    /\ LET t == tasks[u][k]
       IN IF raised
          THEN /\ Ended(u, k, data)
               /\ ev' = Event("handle_answer", u, "DeliveryError")
               /\ batch' = [batch EXCEPT ![u] = BatchFailed(u)]
               /\ run' = [run EXCEPT ![u] = NoRun]
               /\ UNCHANGED <<fsm, data, files, menu, prompts>>
          ELSE LET dt == [data EXCEPT ![u] = FinalScoreData(@, t.score)]
               IN /\ data' = dt
                  /\ fsm' = [fsm EXCEPT ![u] = "ReportChoice.waiting"]
                  /\ Ended(u, k, dt)
                  /\ ev' = Event("handle_answer", u, Sent(raised2))
                  /\ batch' = [batch EXCEPT ![u] = IF raised2 THEN BatchFailed(u) ELSE @]
                  /\ UNCHANGED <<files, menu, prompts, run>>

\* state.clear() at the end of a report handler
Cleared(u, k, op) ==
    LET dt == [data EXCEPT ![u] = ClearedData(@)]
    IN /\ fsm' = [fsm EXCEPT ![u] = ClearedState]
       /\ data' = dt
       /\ Ended(u, k, dt)
       /\ ev' = Event(op, u, "ok")

\* send_text_report, lines 197-211: cb.data = "report:text", up to the first send
SendTextReport(u) ==
    /\ Dispatch
    /\ UNCHANGED <<arg, out>>
    /\ CanDispatch(u)
    /\ LET d == data[u]
           k == FreeSlot(u)
       IN IF ~ReportFilter(fsm[u])
          THEN /\ ev' = Event("send_text_report", u, "unhandled")
               /\ UNCHANGED <<fsm, data, lists, tasks, files, menu, prompts, batch, run>>
          ELSE /\ batch' = [batch EXCEPT ![u] = NoBatch]
               /\ IF "results" \notin d.has
                  THEN /\ ev' = Event("send_text_report", u, "KeyError")
                       /\ run' = [run EXCEPT ![u] = NoRun]
                       /\ UNCHANGED <<fsm, data, lists, tasks, files, menu, prompts>>
                  ELSE IF ReportLines(lists[d.results]) = <<>>
                  THEN \* no line, no chunk, nothing awaited before state.clear()
                       /\ Cleared(u, k, "send_text_report")
                       /\ run' = [run EXCEPT ![u] = NoRun]
                       /\ UNCHANGED <<files, menu, prompts>>
                  ELSE /\ tasks' = [tasks EXCEPT ![u][k] =
                               [Idle EXCEPT !.kind = "text", !.pc = "send",
                                            !.results = d.results,
                                            !.lines = ReportLines(lists[d.results])]]
                       /\ ev' = Event("send_text_report", u, "await")
                       /\ run' = [run EXCEPT ![u] = IF Quiescent(u) THEN @ ELSE NoRun]
                       /\ UNCHANGED <<fsm, data, lists, files, menu, prompts>>

\* send_text_report, lines 211-218: the chunks are sent or a send raises
TextReportSent(u, k, raised) ==
    /\ tasks[u][k].kind = "text" /\ tasks[u][k].pc = "send"
    /\ UNCHANGED <<arg, out>>
    /\ UNCHANGED <<updates, batch>>
    /\ IF raised
       THEN /\ Ended(u, k, data)
            /\ ev' = Event("send_text_report", u, "DeliveryError")
            /\ UNCHANGED <<fsm, data, files, menu, prompts, run>>
       ELSE /\ Cleared(u, k, "send_text_report")
            /\ run' = [run EXCEPT ![u] = NoRun]
            /\ UNCHANGED <<files, menu, prompts>>

\* tempfile.NamedTemporaryFile(delete=False): a name no existing file has
NewFile == CHOOSE f \in FileIds : f \notin files /\
               \A g \in FileIds : g \notin files => f <= g

\* os.remove(pdf_path)
Removed(fs, path) == fs \ {path}

\* send_pdf_report, lines 221-225: cb.data = "report:pdf"; build_pdf raises or
\* writes the temporary file, then the handler awaits the document's send
\* (font, image: what the font file and the image files are at this call)
SendPdfReport(u, font, image) ==
    /\ Dispatch
    /\ UNCHANGED <<arg, out>>
    /\ CanDispatch(u)
    /\ files # FileIds
    /\ LET d == data[u]
           k == FreeSlot(u)
           pdf == BuildPdf(font, d.topic, lists[d.results], image)
       IN IF ~ReportFilter(fsm[u])
          THEN /\ ev' = Event("send_pdf_report", u, "unhandled")
               /\ UNCHANGED <<fsm, data, lists, tasks, files, menu, prompts, batch, run>>
          ELSE /\ batch' = [batch EXCEPT ![u] = NoBatch]
               /\ run' = [run EXCEPT ![u] = NoRun]
               /\ IF ~ ({"topic", "results"} \subseteq d.has)
                  THEN /\ ev' = Event("send_pdf_report", u, "KeyError")
                       /\ UNCHANGED <<fsm, data, lists, tasks, files, menu, prompts>>
                  ELSE IF pdf.raised # "none"
                  THEN /\ ev' = Event("send_pdf_report", u, pdf.raised)
                       /\ UNCHANGED <<fsm, data, lists, tasks, files, menu, prompts>>
                  ELSE /\ files' = files \cup {NewFile}
                       /\ tasks' = [tasks EXCEPT ![u][k] =
                               [Idle EXCEPT !.kind = "pdf", !.pc = "send_document",
                                            !.results = d.results, !.path = NewFile]]
                       /\ ev' = Event("send_pdf_report", u, "await")
                       /\ UNCHANGED <<fsm, data, lists, menu, prompts>>

\* send_pdf_report, lines 225-227: the document is sent or the send raises
PdfReportSent(u, k, raised) ==
    /\ tasks[u][k].kind = "pdf" /\ tasks[u][k].pc = "send_document"
    /\ UNCHANGED <<arg, out>>
    /\ UNCHANGED <<updates, batch, run>>
    /\ IF raised
       THEN /\ Ended(u, k, data)
            /\ ev' = Event("send_pdf_report", u, "DeliveryError")
            /\ UNCHANGED <<fsm, data, files, menu, prompts>>
       ELSE /\ files' = Removed(files, tasks[u][k].path)
            /\ Cleared(u, k, "send_pdf_report")
            /\ UNCHANGED <<menu, prompts>>

\* the steps of the handlers of user u
Step(u) ==
        \/ CmdStart(u)
        \/ \E topic \in TopicNames, raised \in BOOLEAN : ChooseTopic(u, topic, raised)
        \/ \E chosen \in Choices, from \in Prompts : HandleAnswer(u, chosen, from)
        \/ \E k \in Slots, raised \in BOOLEAN, raised2 \in BOOLEAN : AnswerNotified(u, k, raised, raised2)
        \/ \E k \in Slots, raised \in BOOLEAN, raised2 \in BOOLEAN : AnswerFinished(u, k, raised, raised2)
        \/ SendTextReport(u)
        \/ \E k \in Slots, raised \in BOOLEAN : TextReportSent(u, k, raised)
        \/ \E font \in Fonts, image \in Images : SendPdfReport(u, font, image)
        \/ \E k \in Slots, raised \in BOOLEAN : PdfReportSent(u, k, raised)

Next == \E u \in Active : Step(u)

Spec == Init /\ [][Next]_vars

\* ───────────── several users ─────────────
NextMulti == \E u \in Users : Step(u)

SpecMulti == Init /\ [][NextMulti]_vars

\* ───────────── the chunk loop of send_text_report applied on its own ─────────────
\* lengths a line-group can have: short, half a chunk, just under the limit,
\* over the limit, over the transport maximum
LineLens == {40, 1800, 3499, 3600, 4200}

\* lines: up to MaxLines line-groups, given by their lengths
LineLists == UNION {[1..n -> LineLens] : n \in 0..MaxLines}

\* the i-th element of lines as a text
Line(lines, i) == <<[id |-> i, len |-> lines[i]]>>

InitChunk ==
    /\ InitBot
    /\ arg \in [fn : {"chunks"}, lines : LineLists]
    /\ out = [pc |-> "for", pos |-> 1, chunk |-> <<>>, sent |-> <<>>]

\* lines 209-213, one round of "for line in lines": when the chunk would
\* overflow it is passed to cb.message.answer (which returns or raises) and
\* emptied; then the line and the separator are added
ChunkLine(raised) ==
    /\ out.pc = "for" /\ out.pos <= Len(arg.lines)
    /\ LET line == Line(arg.lines, out.pos)
       IN IF Overflows(out.chunk, line)
          THEN IF raised
               THEN out' = [out EXCEPT !.pc = "raised", !.sent = Append(@, out.chunk)]
               ELSE out' = [out EXCEPT !.pos = @ + 1, !.sent = Append(@, out.chunk),
                                       !.chunk = Extended(<<>>, line)]
          ELSE /\ ~raised
               /\ out' = [out EXCEPT !.pos = @ + 1, !.chunk = Extended(@, line)]
    /\ UNCHANGED <<bot, arg>>

\* lines 215-216, after the loop: a chunk that is not empty is passed to
\* cb.message.answer (which returns or raises)
ChunkRest(raised) ==
    /\ out.pc = "for" /\ out.pos > Len(arg.lines)
    /\ IF out.chunk # <<>>
       THEN out' = [out EXCEPT !.pc = IF raised THEN "raised" ELSE "done",
                               !.sent = Append(@, out.chunk), !.chunk = <<>>]
       ELSE /\ ~raised
            /\ out' = [out EXCEPT !.pc = "done"]
    /\ UNCHANGED <<bot, arg>>

NextChunk ==
    \/ \E raised \in BOOLEAN : ChunkLine(raised)
    \/ \E raised \in BOOLEAN : ChunkRest(raised)

SpecChunk == InitChunk /\ [][NextChunk]_vars

\* ───────────── build_pdf applied on its own ─────────────
\* the records handle_answer can append
BankRecords ==
    UNION {{AnswerRecord(topic, i - 1, chosen) : i \in 1..Len(QUIZZES[topic]),
                                                 chosen \in Choices} : topic \in Topics}

\* result logs of up to MaxItems records
ResultLogs == UNION {[1..n -> BankRecords] : n \in 0..MaxItems}

InitPdf ==
    /\ InitBot
    /\ arg \in [fn : {"build_pdf"}, font : Fonts, title : Topics,
                results : ResultLogs, image : Images]
    /\ out = [pc |-> "call", raised |-> "none", pages |-> 0]

\* pdf_path = build_pdf(d["topic"], d["results"])
BuildPdfCalled ==
    /\ out.pc = "call"
    /\ out' = BuildPdf(arg.font, arg.title, arg.results, arg.image)
    /\ UNCHANGED <<bot, arg>>

NextPdf == BuildPdfCalled

SpecPdf == InitPdf /\ [][NextPdf]_vars

----
\* ───────────── the claims ─────────────
ReportOps == {"send_text_report", "send_pdf_report"}

\* C1: an answer that arrives while the session is in AwaitingReportChoice or
\* Closed is rejected (the handler raises) and the step that handles it leaves
\* the session (state, topic, idx, score, records) as it was.
C1_AnswerPastAwaitingAnswerRejected ==
    [][\A u \in Users :
          (updates' # updates /\ ev'.op = "handle_answer" /\ ev'.user = u
             /\ Phase(u) \in {"AwaitingReportChoice", "Closed"})
          => (ev'.res \in {"KeyError", "IndexError"} /\ Session(u)' = Session(u))]_vars

\* C2: on a session started by choose_topic in FSM state none with no handler in
\* flight, with the answers handled one after the other and no send before a write
\* raising, the session is in AwaitingAnswer while fewer than N answers were given
\* and in AwaitingReportChoice once exactly N were, and the score then is the
\* number of answers that chose the correct index.
C2_NAnswersReachReportChoice ==
    \A u \in Users :
        (run[u].clean /\ Quiescent(u)) =>
            LET qs == QUIZZES[data[u].topic]
                g == run[u].given
            IN /\ Len(g) < Len(qs) => Phase(u) = "AwaitingAnswer"
               /\ Len(g) = Len(qs) =>
                     /\ Phase(u) = "AwaitingReportChoice"
                     /\ data[u].score =
                            Cardinality({i \in 1..Len(g) : g[i] = qs[i].correct})

\* the two questions of t2 have been answered, the first right and the second wrong
C2_Witness ==
    \E u \in Users :
        /\ run[u].clean /\ Quiescent(u)
        /\ data[u].topic = "t2" /\ run[u].given = <<0, 0>>
        /\ Phase(u) = "AwaitingReportChoice" /\ data[u].score = 1

\* C3: when two updates of one user (two answers, or an answer and a topic
\* selection) were dispatched while the first was still being handled and both
\* handlers have ended without a send raising, the session is what handling the
\* two one after the other, in one of the two orders, gives.
C3_ConcurrentPairSerializable ==
    \A u \in Users :
        (/\ Quiescent(u) /\ Len(batch[u].evs) = 2 /\ ~batch[u].failed
         /\ \A i \in 1..2 : batch[u].evs[i].op = "topic" => batch[u].evs[i].arg \in Topics) =>
            LET b == batch[u] IN
            \/ Session(u) = Serial(Serial(b.base, b.evs[1]), b.evs[2])
            \/ Session(u) = Serial(Serial(b.base, b.evs[2]), b.evs[1])

\* C4: right after a choose_topic that sent its question the session is in
\* AwaitingAnswer: a report choice would not be accepted.
C4_StartEntersAwaitingAnswer ==
    \A u \in Users :
        (ev.op = "choose_topic" /\ ev.user = u /\ ev.res = "ok") =>
            (Phase(u) = "AwaitingAnswer" /\ ~ReportFilter(fsm[u]))

\* C5: right after choose_topic the stored idx and score are 0 and the stored
\* records are empty, whatever was stored before.
C5_StartResets ==
    \A u \in Users :
        (ev.op = "choose_topic" /\ ev.user = u) =>
            /\ data[u].has = Keys
            /\ data[u].idx = 0 /\ data[u].score = 0 /\ Records(u) = <<>>

\* choose_topic has just run for a user whose previous quiz was answered to the end
C5_Witness ==
    \E u \in Users :
        /\ ev.op = "choose_topic" /\ ev.user = u
        /\ fsm[u] = "ReportChoice.waiting" /\ Records(u) = <<>>

\* C6: every temporary PDF file that exists belongs to a send_pdf_report
\* invocation that has not ended yet.
C6_NoFileOutlivesItsHandler ==
    \A f \in files :
        \E u \in Users, k \in Slots : tasks[u][k].kind = "pdf" /\ tasks[u][k].path = f

\* C7: when one answer was handled alone and a send of its handler raised, the
\* session afterwards is the one the answer applied once gives.
C7_FailedSendStillApplied ==
    \A u \in Users :
        (Quiescent(u) /\ Len(batch[u].evs) = 1 /\ batch[u].failed
           /\ batch[u].evs[1].op = "ans") =>
            Session(u) = SerialAnswer(batch[u].base, batch[u].evs[1].arg)

\* C8: a choose_topic whose topic is no key of the bank (the lookup raises
\* KeyError), for a user who has a session, leaves that session as it was.
C8_UnknownTopicLeavesSession ==
    [][\A u \in Users :
          (updates' # updates /\ ev'.op = "choose_topic" /\ ev'.user = u
             /\ ev'.res = "KeyError" /\ Phase(u) # "Closed")
          => Session(u)' = Session(u)]_vars

\* C9: a report choice dispatched while the session is not in
\* AwaitingReportChoice is not handled: no report handler starts, no file is
\* written and the session stays as it was.
C9_ReportOnlyInReportChoice ==
    [][\A u \in Users :
          (updates' # updates /\ ev'.op \in ReportOps /\ ev'.user = u
             /\ Phase(u) # "AwaitingReportChoice")
          => /\ ev'.res = "unhandled"
             /\ Session(u)' = Session(u)
             /\ tasks' = tasks /\ files' = files]_vars

\* a report choice came in the middle of a quiz and was not handled
C9_Witness ==
    \E u \in Users :
        /\ ev.op \in ReportOps /\ ev.user = u /\ ev.res = "unhandled"
        /\ Phase(u) = "AwaitingAnswer" /\ Records(u) # <<>>

\* C10: a report handler that ends without a send raising leaves the session
\* Closed (state and data cleared); an answer or a report choice dispatched
\* while the session is Closed changes nothing; and with no earlier handler of
\* the user still in flight the session stays Closed until a topic is chosen.
C10_ReportClosesSession ==
    [][\A u \in Users :
          /\ (ev'.op \in ReportOps /\ ev'.user = u /\ ev'.res = "ok" /\ ev' # ev)
                => Phase(u)' = "Closed"
          /\ (updates' # updates /\ ev'.user = u /\ Phase(u) = "Closed"
                /\ ev'.op \in ReportOps \cup {"handle_answer"})
                => /\ Session(u)' = Session(u)
                   /\ tasks' = tasks /\ files' = files
          /\ (Phase(u) = "Closed" /\ Quiescent(u)
                /\ ~(ev'.op = "choose_topic" /\ ev'.user = u /\ updates' # updates))
                => Phase(u)' = "Closed"]_vars

\* the PDF report has been delivered and the session is gone
C10_Witness ==
    \E u \in Users :
        /\ ev.op = "send_pdf_report" /\ ev.user = u /\ ev.res = "ok"
        /\ Phase(u) = "Closed" /\ files = {}

\* C11: no chunk passed to cb.message.answer by the chunk loop is longer than
\* the limit of 3500 characters the loop tests against.
C11_ChunkWithinLimit ==
    \A i \in 1..Len(out.sent) : StrLen(out.sent[i]) <= ChunkLimit

\* C12: the chunks passed to cb.message.answer, one after the other, are the
\* render in one piece: each line-group followed by the separator, in the order
\* of lines, none lost, repeated or moved.  While the loop runs, the chunks
\* sent and the chunk being built are the render of the lines read so far.
C12_ChunksConcatToRender ==
    LET RECURSIVE Render(_)
        Render(n) == IF n = 0 THEN <<>>
                     ELSE Render(n - 1) \o Line(arg.lines, n) \o Separator
        RECURSIVE Concat(_)
        Concat(n) == IF n = 0 THEN <<>> ELSE Concat(n - 1) \o out.sent[n]
    IN /\ out.pc = "done" => Concat(Len(out.sent)) = Render(Len(arg.lines))
       /\ out.pc = "for" =>
              Concat(Len(out.sent)) \o out.chunk = Render(out.pos - 1)

\* a report of three line-groups has been sent in more than one chunk
C12_Witness ==
    /\ out.pc = "done" /\ Len(arg.lines) = MaxLines /\ Len(out.sent) >= 2
    /\ \A i \in 1..Len(out.sent) : out.sent[i] # <<>>

\* C13: a step of a handler of one user leaves every other user's session
\* (FSM state, topic, idx, score, records), handlers in flight, the lists they
\* hold and delivered prompts as they were, under any interleaving.
C13_OtherUsersUntouched ==
    [][\A u \in Users :
          ev'.user # u =>
             /\ Session(u)' = Session(u)
             /\ tasks'[u] = tasks[u]
             /\ \A k \in Slots :
                    tasks[u][k].results # NoList =>
                        lists'[tasks[u][k].results] = lists[tasks[u][k].results]
             /\ prompts'[u] = prompts[u] /\ menu'[u] = menu[u]]_vars

\* u2 has just chosen a topic while u1 is in a quiz with an answer recorded
C13_Witness ==
    /\ ev.user = "u2" /\ ev.op = "choose_topic" /\ ev.res = "ok"
    /\ Phase("u1") = "AwaitingAnswer" /\ Records("u1") # <<>>
    /\ Phase("u2") = "AwaitingAnswer"

\* C14: with the Unicode font missing or corrupt, build_pdf raises nothing and
\* writes a file of at least one page, whatever the title and the records are.
C14_PdfBuiltWithoutUnicodeFont ==
    (out.pc = "done" /\ ~FontOk(arg.font)) =>
        (out.raised = "none" /\ out.pages >= 1)

\* C15: an answer handled alone in AwaitingAnswer, with no send raising and the
\* question found, leaves one more record, the score raised by one exactly when
\* the chosen option is the correct one, and the stored idx raised by one, on
\* the last question too.
C15_AnswerAdvancesIndex ==
    \A u \in Users :
        (/\ Quiescent(u) /\ Len(batch[u].evs) = 1 /\ ~batch[u].failed
         /\ batch[u].evs[1].op = "ans"
         /\ batch[u].base.state = "none"
         /\ batch[u].base.data.has = Keys /\ Lookup(batch[u].base.data) = "ok") =>
            LET d == batch[u].base.data
                q == Question(d.topic, d.idx)
            IN /\ Len(Records(u)) = Len(d.results) + 1
               /\ data[u].score =
                     d.score + (IF batch[u].evs[1].arg = q.correct THEN 1 ELSE 0)
               /\ data[u].idx = d.idx + 1

\* C16: on a session started by choose_topic in FSM state none whose N questions
\* were answered one after the other with no send raising, the stored records
\* are N, the i-th has index i-1 and the correctness of the i-th answer, the
\* last one included, and a text report rendered from it has exactly the N
\* line-groups of these records, in order, each with the mark of its answer.
C16_ReportListsEveryAnswer ==
    \A u \in Users :
        (run[u].clean /\ Len(run[u].given) = Len(QUIZZES[data[u].topic])) =>
            LET qs == QUIZZES[data[u].topic]
                g == run[u].given
                IsRight(i) == g[i] = qs[i].correct
            IN /\ Quiescent(u) =>
                     /\ Phase(u) = "AwaitingReportChoice"
                     /\ Len(Records(u)) = Len(qs)
                     /\ \A i \in 1..Len(qs) :
                            /\ Records(u)[i].index = i - 1
                            /\ Records(u)[i].correct = IsRight(i)
               /\ \A k \in Slots :
                     tasks[u][k].kind = "text" =>
                        tasks[u][k].lines =
                            [i \in 1..Len(qs) |->
                                [mark |-> IF IsRight(i) THEN "check" ELSE "cross",
                                 number |-> i, question |-> qs[i].question,
                                 correct_answer |-> qs[i].correct]]

\* the text report of a finished t2 quiz, first answer right and second wrong,
\* is being sent
C16_Witness ==
    \E u \in Users, k \in Slots :
        /\ run[u].clean /\ run[u].given = <<0, 0>> /\ data[u].topic = "t2"
        /\ tasks[u][k].kind = "text" /\ Len(tasks[u][k].lines) = 2
        /\ tasks[u][k].lines[2].mark = "cross"

\* C17: whenever a report handler runs (its filter lets the update through), the
\* session it reads has a topic of the bank and exactly one record for each of
\* the N questions of that topic, in order.
C17_ReportFromCompletedSession ==
    [][\A u \in Users :
          (updates' # updates /\ ev'.op \in ReportOps /\ ev'.user = u
             /\ ev'.res # "unhandled")
          => /\ {"topic", "results"} \subseteq data[u].has
             /\ data[u].topic \in Topics
             /\ LET qs == QUIZZES[data[u].topic]
                IN /\ Len(Records(u)) = Len(qs)
                   /\ \A i \in 1..Len(qs) :
                          Records(u)[i].question = qs[i].question]_vars

\* C18: whenever the stored topic is a key of the bank, the stored idx is an
\* index of one of its questions: 0 <= idx < len(QUIZZES[topic]).
C18_StoredIndexValid ==
    \A u \in Users :
        ({"topic", "idx"} \subseteq data[u].has /\ data[u].topic \in Topics) =>
            (0 <= data[u].idx /\ data[u].idx < Len(QUIZZES[data[u].topic]))

\* C19: an answer whose button belongs to a prompt sent since construction is
\* either rejected (no record is added) or recorded for the question of that
\* prompt, never for another question.
C19_AnswerScoredAgainstItsPrompt ==
    [][\A u \in Users :
          (updates' # updates /\ ev'.op = "handle_answer" /\ ev'.user = u
             /\ ev'.prompt # NoPrompt)
          => \/ Records(u)' = Records(u)
             \/ /\ Len(Records(u)') = Len(Records(u)) + 1
                /\ Records(u)'[Len(Records(u)')].question =
                       Question(ev'.prompt[1], ev'.prompt[2]).question]_vars

\* C20: no chunk passed to cb.message.answer by the chunk loop is the empty
\* string, wherever a line-group longer than the limit stands in lines.
C20_NoEmptyChunk ==
    \A i \in 1..Len(out.sent) : out.sent[i] # <<>>

====
